---- MODULE Spec2Model ----
(***************************************************************************)
(* The "Listen" extension's transcription relay: a Swift producer writes   *)
(* JSON events to a status file, the TypeScript consumer polls that file   *)
(* and drives callbacks, and a stop-signal file cancels the producer.      *)
(* Also: the literature-clock CSV filter.                                  *)
(***************************************************************************)
EXTENDS Integers, Sequences, FiniteSets, TLC

\* ------------------------------------------------------------------ bounds
MaxTs == 2

\* --------------------------------------------------------------- constants
Absent == "absent"
NoSession == "null"

EventTypes == {"initializing", "recording_started", "partial", "completed", "error"}
SessionIds == {"A", "B"}
\* the calls of startTranscription: the one of the mount effect, and the one
\* of changeLanguage or of a second run of the mount effect
Sessions == {1, 2}

VARIABLES
  statusFile,      \* NoFile, Garbage, or the StreamEvent last written
  stopFile,        \* raycast-listen-stop exists
  micReadyFile,    \* raycast-listen-mic-ready exists
  poller,          \* per session: the closure state of startTranscription
  calls,           \* per session: the callbacks the latest step invoked, in order
  invoked,         \* per session: every callback invoked so far
  step,            \* the operation that made the latest step
  now,             \* the wall clock the producers stamp events with
  prod,            \* per session: the Swift process started for it
  start,           \* per session: position of startTranscription
  task,            \* the view's async functions in flight
  view,            \* TranscriptionView's state and refs
  lit,             \* a call of getLiteratureQuotesForCurrentTime
  fmt,             \* a call of formatBytes
  hook,            \* the refs of useProductionSafeMount in the view
  cli,             \* a run of the command-line transcriber
  vc               \* VoiceCommandView: state, refs and async functions in flight

vars == <<statusFile, stopFile, micReadyFile, poller, calls, invoked, step,
          now, prod, start, task, view, lit, fmt, hook, cli, vc>>
\* what the steps of the relay leave alone
restVars == <<lit, fmt, hook, cli, vc>>
sysVars == <<now, prod, start, task, view>>
relayVars == <<statusFile, stopFile, micReadyFile, poller, calls, invoked, step,
               now, prod, start, task, view>>

\* ------------------------------------------------------------ StreamEvent
Event(type, ts, sid, text, message) ==
  [type |-> type, timestamp |-> ts, sessionId |-> sid, text |-> text, message |-> message]

\* a missing file, and content JSON.parse rejects
NoFile == Event("none", 0, Absent, Absent, Absent)
Garbage == Event("garbage", 0, Absent, Absent, Absent)

\* a reader that takes whatever the file holds for an event
IsEvent_Any(f) == f.type # "none"

IsEvent(f) == f.type \in EventTypes

\* JavaScript truthiness of an optional string, and `v || d`
Truthy(v) == v # Absent /\ v # ""
OrDefault(v, d) == IF Truthy(v) THEN v ELSE d

Call(cb, arg, via) == [cb |-> cb, arg |-> arg, via |-> via]

Step(op, s) == [op |-> op, s |-> s]

\* no callback invoked in the step
NoCalls == [s \in Sessions |-> <<>>]

\* ------------------------------------- literature clock: the CSV of quotes
\* Strings are sequences of characters here.
MaxLines == 3

Whitespace == {" ", "\r"}

\* String.prototype.split(sep)
RECURSIVE Split(_, _)
Split(str, sep) ==
  IF \A i \in 1..Len(str) : str[i] # sep THEN <<str>>
  ELSE LET i == CHOOSE i \in 1..Len(str) :
                   str[i] = sep /\ \A j \in 1..(i - 1) : str[j] # sep
       IN <<SubSeq(str, 1, i - 1)>> \o Split(SubSeq(str, i + 1, Len(str)), sep)

\* String.prototype.trim
RECURSIVE Trim(_)
Trim(str) ==
  IF str = <<>> THEN str
  ELSE IF Head(str) \in Whitespace THEN Trim(Tail(str))
  ELSE IF str[Len(str)] \in Whitespace THEN Trim(SubSeq(str, 1, Len(str) - 1))
  ELSE str

\* line 23: customTime || `${hours}:${minutes}` (<<>> is no or empty customTime)
CurrentTime(customTime, clock) == IF customTime # <<>> THEN customTime ELSE clock

\* line 34
IsBlankLine(line) == Trim(line) = <<>>

\* a filter that wants 7 fields
TooFewFields_Seven(parts) == Len(parts) < 7

\* line 38
TooFewFields(parts) == Len(parts) < 6

\* line 43
MatchesTime(parts, currentTime) == parts[1] = currentTime

\* lines 44-51
Entry(parts) ==
  [time |-> parts[1], timeString |-> parts[2], quote |-> parts[3],
   title |-> parts[4], author |-> parts[5], rating |-> Trim(parts[6])]

\* lines 33-53: the body of the loop for one line, on the entries so far
ProcessLine(entries, line, currentTime) ==
  IF IsBlankLine(line) THEN entries
  ELSE LET parts == Split(line, "|") IN
       IF TooFewFields(parts) THEN entries
       ELSE IF MatchesTime(parts, currentTime) THEN Append(entries, Entry(parts))
       ELSE entries

\* the text of a file whose lines have the given fields
RECURSIVE Join(_, _)
Join(parts, sep) ==
  IF parts = <<>> THEN <<>>
  ELSE IF Len(parts) = 1 THEN parts[1]
  ELSE parts[1] \o <<sep>> \o Join(Tail(parts), sep)

FileText(src) == Join([i \in 1..Len(src) |-> Join(src[i], "|")], "\n")

NoLit ==
  [pc |-> "none", src |-> <<>>, content |-> <<>>, customTime |-> <<>>, clock |-> <<>>,
   currentTime |-> <<>>, lines |-> <<>>, idx |-> 0, entries |-> <<>>]

\* lines 19-31: the time asked for, the file is read and split into lines
LitRead ==
  /\ lit.pc = "start"
  /\ lit' = [lit EXCEPT !.pc = "loop",
                        !.currentTime = CurrentTime(lit.customTime, lit.clock),
                        !.lines = Split(lit.content, "\n"),
                        !.idx = 1,
                        !.entries = <<>>]
  /\ UNCHANGED <<relayVars, fmt, hook, cli, vc>>

\* lines 33-53: one pass of the loop
LitLine ==
  /\ lit.pc = "loop"
  /\ lit.idx <= Len(lit.lines)
  /\ lit' = [lit EXCEPT !.entries = ProcessLine(lit.entries, lit.lines[lit.idx],
                                                lit.currentTime),
                        !.idx = @ + 1]
  /\ UNCHANGED <<relayVars, fmt, hook, cli, vc>>

\* line 55
LitReturn ==
  /\ lit.pc = "loop"
  /\ lit.idx > Len(lit.lines)
  /\ lit' = [lit EXCEPT !.pc = "done"]
  /\ UNCHANGED <<relayVars, fmt, hook, cli, vc>>

\* the files tried: lines of 1, 5, 6 and 7 fields, blank ones, two times,
\* two quotes, a rating followed by a carriage return
TimeT == <<"T">>
TimeU == <<"U">>
LineShapes ==
  { <<f>> : f \in {<<>>, <<" ">>, TimeT} }
  \cup { <<TimeT, <<"s">>, <<"q">>, <<"t">>, <<"a">>>> }
  \cup { <<f, <<"s">>, q, <<"t">>, <<"a">>, <<"r">>>> :
           f \in {TimeT, TimeU}, q \in {<<"q">>, <<"p">>} }
  \cup { <<TimeT, <<"s">>, <<"q">>, <<"t">>, <<"a">>, <<"r", "\r">>>> }
  \cup { <<TimeT, <<"s">>, <<"p">>, <<"t">>, <<"a">>, <<"r">>, <<"x">>>> }

RECURSIVE SeqsUpTo(_, _)
SeqsUpTo(S, n) ==
  IF n = 0 THEN {<<>>}
  ELSE LET shorter == SeqsUpTo(S, n - 1) IN
       shorter \cup {Append(f, x) : f \in shorter, x \in S}

\* ------------------------------------------------------------ formatBytes
\* A size is the sequence of its base-1024 digits, lowest first: a JavaScript
\* integer below 2^53 = 8 * 1024^5 has six of them, the sixth below 8.
K == 1024
NLimbs == 6
Sizes == <<"Bytes", "KB", "MB", "GB", "TB">>

IsZero(b) == \A j \in 1..Len(b) : b[j] = 0

\* the highest non-zero digit of a size that is not 0
TopLimb(b) == CHOOSE j \in 1..Len(b) : b[j] # 0 /\ \A m \in (j + 1)..Len(b) : b[m] = 0

\* Math.log(bytes) / Math.log(k) in doubles is the whole number above the
\* true quotient when bytes is 1024^i - 1 with i >= 5
LogRoundsUp(b) == TopLimb(b) >= 5 /\ \A j \in 1..TopLimb(b) : b[j] = K - 1

\* line 109: i = Math.floor(Math.log(bytes) / Math.log(k))
FloorLog(b) == IF LogRoundsUp(b) THEN TopLimb(b) ELSE TopLimb(b) - 1

\* floor(m * (b mod k^i) / k^i): the carry out of the i low digits times m
RECURSIVE Carry(_, _, _)
Carry(b, i, m) == IF i = 0 THEN 0 ELSE (m * b[i] + Carry(b, i - 1, m)) \div K

\* line 110: Math.round((bytes / k ** i) * 100), the number in hundredths
Hundredths(b, i) ==
  LET top == IF i + 1 <= Len(b) THEN b[i + 1] ELSE 0
      twice == 200 * top + Carry(b, i, 200)
  IN (twice + 1) \div 2

\* line 110: sizes[i], undefined beyond the end of the array
SizeAt(i) == IF i + 1 \in 1..Len(Sizes) THEN Sizes[i + 1] ELSE "undefined"

\* lines 105-111: the string is <hundredths / 100> " " <suffix>
formatBytes(b) ==
  IF IsZero(b) THEN [hundredths |-> 0, suffix |-> "Bytes"]
  ELSE LET i == FloorLog(b) IN [hundredths |-> Hundredths(b, i), suffix |-> SizeAt(i)]

NoFmt == [pc |-> "none", bytes |-> <<>>, out |-> [hundredths |-> 0, suffix |-> ""]]

FormatBytes ==
  /\ fmt.pc = "start"
  /\ fmt' = [fmt EXCEPT !.pc = "done", !.out = formatBytes(fmt.bytes)]
  /\ UNCHANGED <<relayVars, lit, hook, cli, vc>>

\* the sizes tried
LimbValues == {0, 1, 512, K - 1}
TopLimbValues == {0, 1, 7}
SizesTried ==
  {b \in [1..NLimbs -> LimbValues \cup TopLimbValues] :
     /\ b[NLimbs] \in TopLimbValues
     /\ \A j \in 1..(NLimbs - 1) : b[j] \in LimbValues}

\* ------------------------------------------------- useProductionSafeMount
\* use-production-safe-mount.ts lines 5-6
InitHook == [hasRun |-> FALSE, cleanupRef |-> "null", runs |-> 0, phase |-> "new"]

\* lines 8-19: the effect; mountFn of the view returns nothing, so cleanupRef
\* stays null. runs counts the executions of mountFn.
EffectSetup(h) ==
  IF h.hasRun THEN h
  ELSE [h EXCEPT !.hasRun = TRUE, !.runs = @ + 1]

\* lines 21-25: the cleanup the effect returns
EffectCleanup(h) == [h EXCEPT !.hasRun = FALSE, !.cleanupRef = "null"]

\* lines 29-34: the cleanup of the second effect
ResetCleanup(h) == [h EXCEPT !.hasRun = FALSE, !.cleanupRef = "null"]

\* the hook after the effects of the mount have run
MountedHook == [EffectSetup(InitHook) EXCEPT !.phase = "mounted"]

\* ------------------------------------------------- startTranscription state
InitPoller ==
  [lastTimestamp |-> 0, currentSessionId |-> NoSession, isRunning |-> TRUE,
   pollInterval |-> "null", recordingStartedCalled |-> FALSE, lastEventType |-> ""]

\* a session startTranscription has not been called for
NoPoller == [InitPoller EXCEPT !.isRunning = FALSE]

\* lines 60-64: the mic-ready file
MicReadyFires(p, mic) == ~p.recordingStartedCalled /\ mic

\* lines 71-74
CaptureSessionId(cur, e) ==
  IF Truthy(e.sessionId) /\ cur = NoSession THEN e.sessionId ELSE cur

\* a poller without the session filter
IsForeign_Never(cur, e) == FALSE

\* lines 76-79
IsForeign(cur, e) == cur # NoSession /\ Truthy(e.sessionId) /\ e.sessionId # cur

\* a poller that takes an equal timestamp as new / any other timestamp as new
IsNewEvent_Repeats(e, lastTs, lastType) == e.timestamp >= lastTs
IsNewEvent_Unordered(e, lastTs, lastType) ==
  e.timestamp # lastTs \/ e.type # lastType

\* lines 83-84
IsNewEvent(e, lastTs, lastType) ==
  e.timestamp > lastTs \/ (e.timestamp = lastTs /\ e.type # lastType)

\* a switch without the `|| ""` and `|| "Unknown error"` defaults
DispatchCalls_NoDefaults(e, started) ==
  CASE e.type = "recording_started" ->
         IF ~started THEN <<Call("onRecordingStarted", Absent, "event")>> ELSE <<>>
    [] e.type = "partial" ->
         (IF ~started THEN <<Call("onRecordingStarted", Absent, "event")>> ELSE <<>>)
         \o (IF Truthy(e.text) THEN <<Call("onPartialResult", e.text, "event")>> ELSE <<>>)
    [] e.type = "completed" -> <<Call("onCompleted", e.text, "event")>>
    [] e.type = "error" -> <<Call("onError", e.message, "event")>>
    [] OTHER -> <<>>

\* lines 90-119: callbacks of the switch, given whether onRecordingStarted ran
DispatchCalls(e, started) ==
  CASE e.type = "recording_started" ->
         IF ~started THEN <<Call("onRecordingStarted", Absent, "event")>> ELSE <<>>
    [] e.type = "partial" ->
         (IF ~started THEN <<Call("onRecordingStarted", Absent, "event")>> ELSE <<>>)
         \o (IF Truthy(e.text) THEN <<Call("onPartialResult", e.text, "event")>> ELSE <<>>)
    [] e.type = "completed" -> <<Call("onCompleted", OrDefault(e.text, ""), "event")>>
    [] e.type = "error" -> <<Call("onError", OrDefault(e.message, "Unknown error"), "event")>>
    [] OTHER -> <<>>

\* a switch that does not remember that onRecordingStarted ran
DispatchStarted_Forgets(e, started) == started

DispatchStarted(e, started) ==
  started \/ e.type \in {"recording_started", "partial"}

\* a switch that keeps polling after the final event
DispatchRunning_Stays(e) == TRUE

DispatchRunning(e) == e.type \notin {"completed", "error"}

\* lines 57-125: one run of checkFile on poller state p; returns the new
\* poller state and the callbacks invoked, in order
checkFile(p, mic, file) ==
  IF ~p.isRunning THEN [p |-> p, calls |-> <<>>]
  ELSE
    LET micCalls == IF MicReadyFires(p, mic)
                    THEN <<Call("onRecordingStarted", Absent, "micReady")>> ELSE <<>>
        p1 == [p EXCEPT !.recordingStartedCalled = p.recordingStartedCalled \/ mic]
    IN
    IF ~IsEvent(file) THEN [p |-> p1, calls |-> micCalls]
    ELSE
      LET e == file
          p2 == [p1 EXCEPT !.currentSessionId = CaptureSessionId(p1.currentSessionId, e)]
      IN
      IF IsForeign(p2.currentSessionId, e) THEN [p |-> p2, calls |-> micCalls]
      ELSE IF ~IsNewEvent(e, p2.lastTimestamp, p2.lastEventType)
           THEN [p |-> p2, calls |-> micCalls]
      ELSE
        [p |-> [p2 EXCEPT !.lastTimestamp = e.timestamp,
                          !.lastEventType = e.type,
                          !.recordingStartedCalled =
                              DispatchStarted(e, p2.recordingStartedCalled),
                          !.isRunning = DispatchRunning(e)],
         calls |-> micCalls \o DispatchCalls(e, p2.recordingStartedCalled)]

\* ------------------------------------------------------- TranscriptionView
InitView ==
  [mounted |-> TRUE, isRecording |-> TRUE, isMicReady |-> FALSE,
   transcriptionText |-> "", sessionRef |-> 0, acceptUpdates |-> TRUE,
   showActionsList |-> FALSE, toasts |-> {}]

\* the callbacks startTranscriptionSession passes (CHANGELOG.md lines 91-111);
\* a state setter of an unmounted component does nothing
ApplyCall(v, c) ==
  CASE c.cb = "onRecordingStarted" ->
         IF v.mounted THEN [v EXCEPT !.isMicReady = TRUE] ELSE v
    [] c.cb = "onPartialResult" ->
         IF v.mounted /\ v.acceptUpdates THEN [v EXCEPT !.transcriptionText = c.arg] ELSE v
    [] c.cb = "onCompleted" ->
         IF v.mounted THEN [v EXCEPT !.isRecording = FALSE] ELSE v
    [] c.cb = "onError" ->
         [v EXCEPT !.isRecording = IF v.mounted THEN FALSE ELSE @,
                   !.toasts = @ \cup {c.arg}]
    [] OTHER -> v

RECURSIVE ApplyCalls(_, _)
ApplyCalls(v, seq) ==
  IF seq = <<>> THEN v ELSE ApplyCalls(ApplyCall(v, Head(seq)), Tail(seq))

ToSet(seq) == {seq[i] : i \in 1..Len(seq)}

\* setInterval callback, lines 130-136
IntervalTick(s) ==
  /\ poller[s].pollInterval = "set"
  /\ IF ~poller[s].isRunning
     THEN /\ poller' = [poller EXCEPT ![s].pollInterval = "cleared"]
          /\ calls' = [NoCalls EXCEPT ![s] = <<>>]
          /\ UNCHANGED <<invoked, view>>
     ELSE LET r == checkFile(poller[s], micReadyFile, statusFile) IN
          /\ poller' = [poller EXCEPT ![s] = r.p]
          /\ calls' = [NoCalls EXCEPT ![s] = r.calls]
          /\ invoked' = [invoked EXCEPT ![s] = @ \cup ToSet(r.calls)]
          /\ view' = ApplyCalls(view, r.calls)
  /\ UNCHANGED restVars
  /\ step' = Step(IF poller[s].isRunning THEN "checkFile" ELSE "clearInterval", s)
  /\ UNCHANGED <<statusFile, stopFile, micReadyFile, now, prod, start, task>>

\* --------------------------------------------------- the Swift producer
MaxPartials == 1

SidOf(s) == <<"A", "B", "C", "D">>[s]

PermissionMessage ==
  "Permissions not granted. Please enable microphone and speech recognition in System Settings."
StartErrorMessage == "Error starting transcription: <localizedDescription>"
RecognitionMessage == "<localizedDescription>"
RejectMessage == "String(error)"

InitProd ==
  [pc |-> "none", stopRequested |-> FALSE, isFinished |-> FALSE,
   transcriptionResult |-> "", partials |-> 0, failure |-> Absent, observedStop |-> FALSE]

TaskIds == {"stopRec", "unmount", "lang"}
IdleTask == [pc |-> "idle", sess |-> 0, text |-> "", showTimer |-> FALSE]

\* TranscriptionIPC.writeStatus under Date().timeIntervalSince1970
WriteStatus(s, type, text, message) ==
  /\ now' = now + 1
  /\ statusFile' = Event(type, now + 1, SidOf(s), text, message)

\* startTranscription (Swift) lines 187-197: clearStopSignal, "initializing"
ProdStart(s) ==
  /\ prod[s].pc = "spawned"
  /\ stopFile' = FALSE
  /\ WriteStatus(s, "initializing", Absent, Absent)
  /\ prod' = [prod EXCEPT ![s].pc = "init"]
  /\ UNCHANGED restVars
  /\ step' = Step("ProdStart", s)
  /\ calls' = NoCalls
  /\ UNCHANGED <<micReadyFile, poller, invoked, start, task, view>>

\* lines 200-206: permissions refused, the error event is written
ProdPermissionDenied(s) ==
  /\ prod[s].pc = "init"
  /\ WriteStatus(s, "error", Absent, PermissionMessage)
  /\ prod' = [prod EXCEPT ![s].pc = "failing", ![s].failure = PermissionMessage]
  /\ UNCHANGED restVars
  /\ step' = Step("ProdPermissionDenied", s)
  /\ calls' = NoCalls
  /\ UNCHANGED <<stopFile, micReadyFile, poller, invoked, start, task, view>>

\* lines 209-217: audioEngine.start() throws
ProdStartFails(s) ==
  /\ prod[s].pc = "init"
  /\ WriteStatus(s, "error", Absent, StartErrorMessage)
  /\ prod' = [prod EXCEPT ![s].pc = "failing", ![s].failure = StartErrorMessage]
  /\ UNCHANGED restVars
  /\ step' = Step("ProdStartFails", s)
  /\ calls' = NoCalls
  /\ UNCHANGED <<stopFile, micReadyFile, poller, invoked, start, task, view>>

\* startTranscribing lines 91-111
ProdRecordingStarted(s) ==
  /\ prod[s].pc = "init"
  /\ WriteStatus(s, "recording_started", Absent, Absent)
  /\ prod' = [prod EXCEPT ![s].pc = "recording"]
  /\ UNCHANGED restVars
  /\ step' = Step("ProdRecordingStarted", s)
  /\ calls' = NoCalls
  /\ UNCHANGED <<stopFile, micReadyFile, poller, invoked, start, task, view>>

\* recognition callback with a result, lines 116-137
ProdPartial(s) ==
  /\ prod[s].pc = "recording"
  /\ prod[s].partials < MaxPartials
  /\ WriteStatus(s, "partial", "x", Absent)
  /\ prod' = [prod EXCEPT ![s].transcriptionResult = "x", ![s].partials = @ + 1]
  /\ UNCHANGED restVars
  /\ step' = Step("ProdPartial", s)
  /\ calls' = NoCalls
  /\ UNCHANGED <<stopFile, micReadyFile, poller, invoked, start, task, view>>

\* recognition callback with an error, line 140
ProdRecognitionError(s) ==
  /\ prod[s].pc = "recording"
  /\ WriteStatus(s, "error", Absent, RecognitionMessage)
  /\ prod' = [prod EXCEPT ![s].pc = "errored", ![s].failure = RecognitionMessage]
  /\ UNCHANGED restVars
  /\ step' = Step("ProdRecognitionError", s)
  /\ calls' = NoCalls
  /\ UNCHANGED <<stopFile, micReadyFile, poller, invoked, start, task, view>>

\* stopTranscribing lines 150-171, on producer record q
stopTranscribing(q) ==
  IF q.stopRequested THEN q
  ELSE [q EXCEPT !.stopRequested = TRUE, !.isFinished = TRUE]

\* what a call of stopTranscribing by producer s does to the status file
StopTranscribingWrites(s) ==
  IF prod[s].stopRequested
  THEN UNCHANGED <<now, statusFile>>
  ELSE WriteStatus(s, "completed", prod[s].transcriptionResult, Absent)

\* line 141: stopTranscribing right after the error event
ProdStopAfterError(s) ==
  /\ prod[s].pc = "errored"
  /\ StopTranscribingWrites(s)
  /\ prod' = [prod EXCEPT ![s] = [stopTranscribing(@) EXCEPT !.pc = "finished"]]
  /\ UNCHANGED restVars
  /\ step' = Step("ProdStopAfterError", s)
  /\ calls' = NoCalls
  /\ UNCHANGED <<stopFile, micReadyFile, poller, invoked, start, task, view>>

\* the duration timer, lines 145-147
ProdTimer(s) ==
  /\ prod[s].pc = "recording"
  /\ StopTranscribingWrites(s)
  /\ prod' = [prod EXCEPT ![s] = [stopTranscribing(@) EXCEPT !.pc = "finished"]]
  /\ UNCHANGED restVars
  /\ step' = Step("ProdTimer", s)
  /\ calls' = NoCalls
  /\ UNCHANGED <<stopFile, micReadyFile, poller, invoked, start, task, view>>

\* the run loop sees the stop file, line 244
ProdSeeStop(s) ==
  /\ prod[s].pc \in {"init", "recording"}
  /\ stopFile
  /\ prod' = [prod EXCEPT ![s].pc = "stopping", ![s].observedStop = TRUE]
  /\ UNCHANGED restVars
  /\ step' = Step("ProdSeeStop", s)
  /\ calls' = NoCalls
  /\ UNCHANGED <<statusFile, stopFile, micReadyFile, poller, invoked,
                 now, start, task, view>>

\* lines 245-247: stopTranscribing, clearStopSignal, break
ProdStopOnSignal(s) ==
  /\ prod[s].pc = "stopping"
  /\ StopTranscribingWrites(s)
  /\ stopFile' = FALSE
  /\ prod' = [prod EXCEPT ![s] = [stopTranscribing(@) EXCEPT !.pc = "returning"]]
  /\ UNCHANGED restVars
  /\ step' = Step("ProdStopOnSignal", s)
  /\ calls' = NoCalls
  /\ UNCHANGED <<micReadyFile, poller, invoked, start, task, view>>

\* a stopPolling that leaves the interval set
stopPolling_Keeps(p) == p

\* stopPolling, transcribe.ts lines 138-140
stopPolling(p) ==
  [p EXCEPT !.pollInterval = IF @ = "set" THEN "cleared" ELSE @]

\* The function returns (after the last pass of the loop, which clears a stop
\* file it finds, lines 240-248); the promise resolves, transcribe.ts 151-154
ProdReturn(s) ==
  /\ prod[s].pc \in {"finished", "returning"}
  /\ stopFile' = IF prod[s].pc = "finished" THEN FALSE ELSE stopFile
  /\ prod' = [prod EXCEPT ![s].pc = "exited"]
  /\ poller' = [poller EXCEPT ![s] = stopPolling([@ EXCEPT !.isRunning = FALSE])]
  /\ calls' = [NoCalls EXCEPT ![s] = <<>>]
  /\ UNCHANGED restVars
  /\ step' = Step("ProdReturn", s)
  /\ UNCHANGED <<statusFile, micReadyFile, invoked, now, start, task, view>>

\* exit(1) after an error event; the promise rejects, transcribe.ts 155-159
ProdExit1(s) ==
  /\ prod[s].pc = "failing"
  /\ prod' = [prod EXCEPT ![s].pc = "exited"]
  /\ poller' = [poller EXCEPT ![s] = stopPolling([@ EXCEPT !.isRunning = FALSE])]
  /\ LET cs == <<Call("onError", RejectMessage, "reject")>> IN
       /\ calls' = [NoCalls EXCEPT ![s] = cs]
       /\ invoked' = [invoked EXCEPT ![s] = @ \cup ToSet(cs)]
       /\ view' = ApplyCalls(view, cs)
  /\ UNCHANGED restVars
  /\ step' = Step("ProdExit1", s)
  /\ UNCHANGED <<statusFile, stopFile, micReadyFile, now, start, task>>

\* ------------------------------------ the command-line transcriber (Swift)
\* The permission, recognition and timer callbacks run on the main queue, one
\* at a time, inside the run loop of the main thread; the stdin listener runs
\* on a global queue and calls stop_transcribing from there. stop_requested
\* and is_finished are plain fields, so a call is a sequence of steps that the
\* other thread can interleave with.
Threads == {"main", "stdin"}
MaxOut == 4

NoCli ==
  [pc |-> "none", stream_mode |-> FALSE, stop_requested |-> FALSE,
   is_finished |-> FALSE, out |-> <<>>, at |-> [t \in Threads |-> "idle"],
   timer |-> "unset", errored |-> FALSE, listener |-> "reading", effects |-> 0,
   failure |-> Absent]

CliRuns == cli.pc \in {"permissions", "recording"}

\* output_json: one line on stdout, used in stream mode only
output_json(c, type) ==
  IF c.stream_mode THEN [c EXCEPT !.out = Append(@, type)] ELSE c

CliStep(c) ==
  /\ cli' = c
  /\ UNCHANGED <<relayVars, lit, fmt, hook, vc>>

\* permissions refused: the error event, exit(1)
CliDenied ==
  /\ cli.pc = "permissions"
  /\ cli.at["main"] = "idle"
  /\ CliStep([output_json(cli, "error") EXCEPT
                !.pc = "failed", !.failure = PermissionMessage])

\* start_transcribing throws: the error event, exit(1)
CliStartFails ==
  /\ cli.pc = "permissions"
  /\ cli.at["main"] = "idle"
  /\ CliStep([output_json(cli, "error") EXCEPT
                !.pc = "failed", !.failure = StartErrorMessage])

\* start_transcribing: recording_started, the recognition task, the timer
CliGranted ==
  /\ cli.pc = "permissions"
  /\ cli.at["main"] = "idle"
  /\ CliStep([output_json(cli, "recording_started") EXCEPT
                !.pc = "recording", !.timer = "armed"])

\* the recognition callback with a result
CliPartial ==
  /\ cli.pc = "recording"
  /\ cli.at["main"] = "idle"
  /\ ~cli.is_finished
  /\ Len(cli.out) < MaxOut
  /\ cli.stream_mode
  /\ CliStep(output_json(cli, "partial"))

\* the recognition callback with an error: the error event, then the call
CliRecognitionError ==
  /\ cli.pc = "recording"
  /\ cli.at["main"] = "idle"
  /\ ~cli.errored
  /\ CliStep([output_json(cli, "error") EXCEPT
                !.errored = TRUE, !.at["main"] = "called"])

\* the duration timer on the main queue
CliTimer ==
  /\ cli.pc = "recording"
  /\ cli.at["main"] = "idle"
  /\ cli.timer = "armed"
  /\ CliStep([cli EXCEPT !.timer = "fired", !.at["main"] = "called"])

\* the stdin listener reads a STOP line and leaves its loop after the call
CliStdinStop ==
  /\ CliRuns
  /\ cli.listener = "reading"
  /\ CliStep([cli EXCEPT !.listener = "stopped", !.at["stdin"] = "called"])

\* the stdin listener reads end of file
CliStdinEOF ==
  /\ CliRuns
  /\ cli.listener = "reading"
  /\ CliStep([cli EXCEPT !.listener = "eof"])

\* stop_transcribing, the guard: if stop_requested { return }
StopGuard(t) ==
  /\ CliRuns
  /\ cli.at[t] = "called"
  /\ CliStep([cli EXCEPT !.at[t] = IF cli.stop_requested THEN "idle" ELSE "entered"])

\* stop_transcribing: the log line is written, then stop_requested = true
StopSet(t) ==
  /\ CliRuns
  /\ cli.at[t] = "entered"
  /\ CliStep([cli EXCEPT !.stop_requested = TRUE, !.effects = @ + 1, !.at[t] = "set"])

\* stop_transcribing: engine and task are stopped, then is_finished = true
StopFinish(t) ==
  /\ CliRuns
  /\ cli.at[t] = "set"
  /\ CliStep([cli EXCEPT !.is_finished = TRUE, !.at[t] = "finishing"])

\* stop_transcribing: the completed event in stream mode
StopEmit(t) ==
  /\ CliRuns
  /\ cli.at[t] = "finishing"
  /\ CliStep([output_json(cli, "completed") EXCEPT !.at[t] = "idle"])

\* the run loop of the main thread sees is_complete() and the process exits
CliLoopExit ==
  /\ CliRuns
  /\ cli.at["main"] = "idle"
  /\ cli.is_finished
  /\ CliStep([cli EXCEPT !.pc = "exited"])

\* ------------------------------------------------------ VoiceCommandView
\* The state and refs of the component, the sessions startTranscription has
\* returned to it, and its async functions in flight. A handler reads the
\* state of the render it was created in: the values are copied into the flow
\* when the handler is invoked. A session delivers callbacks while its poller
\* is running (isRunning, transcribe.ts lines 58, 112, 117, 152, 165).
\* The field stopped records history only: a stopAndProcess has started on a
\* live session and no changeLanguage has started a session since.
MaxFlows == 2
\* the handlers the user invokes while the view lives
Flows == 1..MaxFlows
\* flow 0 is the startTranscriptionSession() of the mount effect
AllFlows == 0..MaxFlows
\* every flow starts at most one session
VSess == 1..(MaxFlows + 1)
Locales == {"en-US", "fr-FR"}
PartialTexts == {"a", "b"}
SelectedTexts == {"sel", " "}
Models == {"claude-haiku", "gpt5-mini"}
Answer == "answer"

\* String.trim() of the texts that occur is empty
IsBlank(t) == t \in {"", " "}

FreeFlow ==
  [kind |-> "free", pc |-> "free", sess |-> 0, text |-> "", sel |-> "",
   locale |-> "", pressed |-> "", instruction |-> Absent]

NoOp == [name |-> "none", f |-> 0, arg |-> ""]

NoVc ==
  [phase |-> "none", viewState |-> "recording", transcriptionText |-> "",
   resultText |-> "", isMicReady |-> FALSE, currentModel |-> "claude-haiku",
   currentLocale |-> "en-US", selectedText |-> "", mounted |-> FALSE,
   sessionRef |-> 0, acceptUpdatesRef |-> TRUE, selection |-> "none",
   sess |-> [s \in VSess |-> "none"], flow |-> [f \in AllFlows |-> FreeFlow],
   op |-> NoOp, stopped |-> FALSE]

Op(name, f, arg) == [name |-> name, f |-> f, arg |-> arg]

\* a flow that returned: what it captured is gone with its closure
Done(q) == [FreeFlow EXCEPT !.kind = q.kind, !.pc = "done", !.sess = q.sess]

VcStep(c) ==
  /\ vc' = c
  /\ UNCHANGED <<relayVars, lit, fmt, hook, cli>>

HasFree == \E f \in Flows : vc.flow[f].kind = "free"
Free == CHOOSE f \in Flows : vc.flow[f].kind = "free" /\ \A g \in Flows : g < f => vc.flow[g].kind # "free"
Created == Cardinality({s \in VSess : vc.sess[s] # "none"})

\* lines 90-101: the error view replaces every other view
ErrorView == vc.selectedText = "" /\ vc.mounted
Shows(v) == vc.phase = "mounted" /\ ~ErrorView /\ vc.viewState = v

\* lines 79-86: mountFn calls startTranscriptionSession() and getSelectedText()
VoiceMount ==
  /\ vc.phase = "none"
  /\ VcStep([vc EXCEPT !.phase = "mounted", !.selection = "pending",
               !.flow[0] = [FreeFlow EXCEPT !.kind = "start", !.pc = "starting",
                                            !.locale = vc.currentLocale],
               !.op = Op("mount", 0, "")])

\* lines 82-85: getSelectedText resolves
SelectedTextResolves(t) ==
  /\ vc.selection = "pending"
  /\ VcStep([vc EXCEPT !.selection = "done", !.selectedText = t, !.mounted = TRUE,
               !.op = Op("getSelectedText.then", 0, t)])

\* line 85: getSelectedText rejects, finally sets mounted
SelectedTextRejects ==
  /\ vc.selection = "pending"
  /\ VcStep([vc EXCEPT !.selection = "done", !.mounted = TRUE,
               !.op = Op("getSelectedText.finally", 0, "")])

\* lines 105-136: onLocaleUsed and startTranscription have resolved; the new
\* session polls, and sessionRef.current = session
StartSession(f) ==
  /\ vc.flow[f].pc = "starting"
  /\ LET s == Created + 1 IN
       VcStep([vc EXCEPT !.sess[s] = "running", !.sessionRef = s,
                 !.stopped = IF vc.flow[f].kind = "lang" THEN FALSE ELSE @,
                 !.flow[f] = [FreeFlow EXCEPT !.kind = vc.flow[f].kind, !.pc = "done", !.sess = s],
                 !.op = Op("startTranscriptionSession", f, vc.flow[f].locale)])

\* lines 113-115
OnRecordingStarted(s) ==
  /\ vc.sess[s] = "running"
  /\ ~vc.isMicReady
  /\ VcStep([vc EXCEPT !.isMicReady = TRUE, !.op = Op("onRecordingStarted", s, "")])

\* line 117
Accepts == vc.acceptUpdatesRef

\* lines 116-120
OnPartialResult(s, t) ==
  /\ vc.sess[s] = "running"
  /\ VcStep([vc EXCEPT !.transcriptionText = IF Accepts THEN t ELSE @,
               !.op = Op("onPartialResult", s, t)])

\* lines 124-131, after the error event or the rejection stopped the poller
OnSessionError(s) ==
  /\ vc.sess[s] = "running"
  /\ VcStep([vc EXCEPT !.sess[s] = "stopped", !.viewState = "result",
               !.op = Op("onError", s, "")])

\* lines 121-123: onCompleted, or the producer call resolves
OnSessionCompleted(s) ==
  /\ vc.sess[s] = "running"
  /\ VcStep([vc EXCEPT !.sess[s] = "stopped", !.op = Op("onCompleted", s, "")])

\* lines 160-167
StopAndProcess ==
  /\ Shows("recording")
  /\ HasFree
  /\ IF vc.sessionRef = 0
     THEN VcStep([vc EXCEPT !.op = Op("stopAndProcess.return", 0, "")])
     ELSE VcStep([vc EXCEPT !.acceptUpdatesRef = FALSE, !.stopped = TRUE,
                    !.flow[Free] = [FreeFlow EXCEPT !.kind = "stop", !.pc = "stop.signal",
                                      !.sess = vc.sessionRef,
                                      !.text = vc.transcriptionText,
                                      !.sel = vc.selectedText,
                                      !.pressed = vc.transcriptionText],
                    !.op = Op("stopAndProcess", Free, vc.transcriptionText)])

\* lines 138-148
ChangeLanguage_Voice(l) ==
  /\ Shows("recording")
  /\ HasFree
  /\ IF l = vc.currentLocale
     THEN VcStep([vc EXCEPT !.op = Op("changeLanguage.return", 0, l)])
     ELSE VcStep([vc EXCEPT
                    !.flow[Free] = [FreeFlow EXCEPT !.kind = "lang",
                                      !.pc = IF vc.sessionRef # 0 THEN "stop.signal" ELSE "cleanup",
                                      !.sess = vc.sessionRef, !.locale = l],
                    !.op = Op("changeLanguage", Free, l)])

\* session.stop(), transcribe.ts lines 162-166: the stop signal, isRunning = false
StopSignalled(f) ==
  /\ vc.flow[f].pc = "stop.signal"
  /\ VcStep([vc EXCEPT !.sess[vc.flow[f].sess] = "stopped", !.flow[f].pc = "stop.wait",
               !.op = Op("session.stop", f, "")])

\* session.stop() returns; sessionRef.current = null; cleanupTranscription()
StopReturned(f) ==
  /\ vc.flow[f].pc = "stop.wait"
  /\ VcStep([vc EXCEPT !.sessionRef = 0, !.flow[f].pc = "cleanup",
               !.op = Op("sessionRef.null", f, "")])

\* the text a stopAndProcess reads where it tests and passes transcriptionText
ClosureText(f) == vc.flow[f].text

\* lines 169-185 of stopAndProcess, lines 148-157 of changeLanguage
CleanupDone(f) ==
  /\ vc.flow[f].pc = "cleanup"
  /\ IF vc.flow[f].kind = "stop"
     THEN VcStep([vc EXCEPT !.viewState = "processing",
                    !.flow[f].pc = IF IsBlank(ClosureText(f)) THEN "toast" ELSE "request",
                    !.flow[f].instruction = IF IsBlank(ClosureText(f)) THEN Absent ELSE ClosureText(f),
                    !.op = Op("stopAndProcess.processing", f, "")])
     ELSE VcStep([vc EXCEPT !.currentLocale = vc.flow[f].locale,
                    !.transcriptionText = "", !.isMicReady = FALSE,
                    !.acceptUpdatesRef = TRUE, !.flow[f].pc = "starting",
                    !.op = Op("changeLanguage.reset", f, "")])

\* lines 173-182: the toast, then the selected text is the result
BlankToastDone(f) ==
  /\ vc.flow[f].pc = "toast"
  /\ VcStep([vc EXCEPT !.viewState = "result", !.resultText = vc.flow[f].sel,
               !.flow[f] = Done(@), !.op = Op("stopAndProcess.blank", f, "")])

\* lines 232-240
HandleRegenerate ==
  /\ Shows("result")
  /\ HasFree
  /\ IF IsBlank(vc.transcriptionText)
     THEN VcStep([vc EXCEPT !.op = Op("handleRegenerate.return", 0, "")])
     ELSE VcStep([vc EXCEPT !.viewState = "processing",
                    !.flow[Free] = [FreeFlow EXCEPT !.kind = "regen", !.pc = "request",
                                      !.text = vc.transcriptionText, !.sel = vc.selectedText,
                                      !.instruction = vc.transcriptionText],
                    !.op = Op("handleRegenerate", Free, "")])

\* lines 302-308
OnChangeModelAndRegenerate(m) ==
  /\ Shows("result")
  /\ HasFree
  /\ VcStep([vc EXCEPT !.currentModel = m, !.viewState = "processing",
               !.flow[Free] = [FreeFlow EXCEPT !.kind = "model", !.pc = "request",
                                 !.text = vc.transcriptionText, !.sel = vc.selectedText,
                                 !.instruction = vc.transcriptionText],
               !.op = Op("onChangeModelAndRegenerate", Free, m)])

\* an onError that shows the toast and leaves viewState alone
RequestError_Silent(f, name) ==
  VcStep([vc EXCEPT !.flow[f] = Done(@), !.op = Op(name, f, "")])

\* the onError passed to processVoiceCommand: lines 196-204, 248-255, 313-315
RequestError(f, name) ==
  VcStep([vc EXCEPT !.viewState = "result",
            !.resultText = IF vc.flow[f].kind = "stop" THEN vc.flow[f].sel ELSE @,
            !.flow[f] = Done(@), !.op = Op(name, f, "")])

\* processVoiceCommand, part_006 lines 229-259: the request is refused
RequestRejected(f, why) ==
  /\ vc.flow[f].pc = "request"
  /\ CASE why = "selection" -> IsBlank(vc.flow[f].sel)
       [] why = "instruction" -> ~IsBlank(vc.flow[f].sel) /\ IsBlank(vc.flow[f].text)
       [] why = "ai" -> ~IsBlank(vc.flow[f].sel) /\ ~IsBlank(vc.flow[f].text)
  /\ RequestError(f, "request.rejected")

\* part_006 lines 261-280: AI.ask resolves, onSuccess
RequestSucceeds(f) ==
  /\ vc.flow[f].pc = "request"
  /\ ~IsBlank(vc.flow[f].sel)
  /\ ~IsBlank(vc.flow[f].text)
  /\ VcStep([vc EXCEPT !.viewState = "result", !.resultText = Answer,
               !.flow[f] = Done(@), !.op = Op("request.success", f, "")])

\* part_006 lines 281-289: AI.ask rejects, onError
RequestFails(f) ==
  /\ vc.flow[f].pc = "request"
  /\ ~IsBlank(vc.flow[f].sel)
  /\ ~IsBlank(vc.flow[f].text)
  /\ RequestError(f, "request.failed")

\* ------------------------------------------ startTranscription (TypeScript)
\* line 51: await cleanupStatusFile()
StartCleanup(s) ==
  /\ start[s] = "starting"
  /\ statusFile' = NoFile
  /\ stopFile' = FALSE
  /\ start' = [start EXCEPT ![s] = "cleaned"]
  /\ UNCHANGED restVars
  /\ step' = Step("StartCleanup", s)
  /\ calls' = NoCalls
  /\ UNCHANGED <<micReadyFile, poller, invoked, now, prod, task, view>>

\* lines 54-172: startWatching with its immediate checkFile, the producer is
\* launched, the session is returned and stored in sessionRef
StartWatch(s) ==
  /\ start[s] = "cleaned"
  /\ LET r == checkFile([InitPoller EXCEPT !.pollInterval = "set"], micReadyFile, statusFile) IN
       /\ poller' = [poller EXCEPT ![s] = r.p]
       /\ calls' = [NoCalls EXCEPT ![s] = r.calls]
       /\ invoked' = [invoked EXCEPT ![s] = @ \cup ToSet(r.calls)]
       /\ view' = [ApplyCalls(view, r.calls) EXCEPT !.sessionRef = s]
  /\ prod' = [prod EXCEPT ![s].pc = "spawned"]
  /\ start' = [start EXCEPT ![s] = "started"]
  /\ UNCHANGED restVars
  /\ step' = Step("StartWatch", s)
  /\ UNCHANGED <<statusFile, stopFile, micReadyFile, now, task>>

\* ------------------------------------------- session.stop and the cleanup
DeleteIpcFiles ==
  /\ statusFile' = NoFile
  /\ stopFile' = FALSE

\* transcribe.ts line 164 / 208: swiftStopTranscription creates the stop file
TaskSignal(k) ==
  /\ task[k].pc \in {"stop.signal", "clean.signal"}
  /\ stopFile' = TRUE
  /\ task' = [task EXCEPT ![k].pc = IF @ = "stop.signal" THEN "stop.polling" ELSE "clean.wait"]
  /\ UNCHANGED restVars
  /\ step' = Step(task[k].pc, task[k].sess)
  /\ calls' = NoCalls
  /\ UNCHANGED <<statusFile, micReadyFile, poller, invoked, now, prod, start, view>>

\* lines 165-168: isRunning = false, stopPolling(), the 200 ms timer is set
TaskStopPolling(k) ==
  /\ task[k].pc = "stop.polling"
  /\ poller' = [poller EXCEPT ![task[k].sess] = stopPolling([@ EXCEPT !.isRunning = FALSE])]
  /\ calls' = NoCalls
  /\ task' = [task EXCEPT ![k].pc = "stop.wait"]
  /\ UNCHANGED restVars
  /\ step' = Step("stop.polling", task[k].sess)
  /\ UNCHANGED <<statusFile, stopFile, micReadyFile, invoked, now, prod, start, view>>

\* lines 168-171: the delay is over, cleanupStatusFile; stop() resolves.
\* handleStopRecording then sets its 100 ms timer (lines 194-198) and
\* stopRecording clears sessionRef and calls cleanupTranscription
\* (CHANGELOG.md lines 151-153)
TaskStopCleanup(k) ==
  /\ task[k].pc = "stop.wait"
  /\ DeleteIpcFiles
  /\ task' = [task EXCEPT ![k].pc = "clean.signal", ![k].showTimer = (k = "stopRec")]
  /\ view' = [view EXCEPT !.sessionRef = 0]
  /\ UNCHANGED restVars
  /\ step' = Step("stop.cleanup", task[k].sess)
  /\ calls' = NoCalls
  /\ UNCHANGED <<micReadyFile, poller, invoked, now, prod, start>>

\* cleanupTranscription lines 210-212: the delay is over, cleanupStatusFile
TaskCleanCleanup(k) ==
  /\ task[k].pc = "clean.wait"
  /\ DeleteIpcFiles
  /\ task' = [task EXCEPT ![k].pc = "done"]
  /\ UNCHANGED restVars
  /\ step' = Step("clean.cleanup", task[k].sess)
  /\ calls' = NoCalls
  /\ UNCHANGED <<micReadyFile, poller, invoked, now, prod, start, view>>

\* the timer of handleStopRecording, lines 194-198
ShowActionsTimer ==
  /\ task["stopRec"].showTimer
  /\ task' = [task EXCEPT !["stopRec"].showTimer = FALSE]
  /\ view' = IF task["stopRec"].text # "" /\ view.mounted
             THEN [view EXCEPT !.showActionsList = TRUE] ELSE view
  /\ UNCHANGED restVars
  /\ step' = Step("ShowActionsTimer", 0)
  /\ calls' = NoCalls
  /\ UNCHANGED <<statusFile, stopFile, micReadyFile, poller, invoked, now, prod, start>>

\* the "Stop Recording" action: stopRecording (CHANGELOG.md lines 139-154)
\* with handleStopRecording (transcribe.ts lines 186-200)
StopRecording ==
  /\ view.mounted
  /\ view.isRecording
  /\ task["stopRec"].pc \in {"idle", "done"}
  /\ IF view.sessionRef # 0
     THEN /\ view' = [view EXCEPT !.acceptUpdates = FALSE, !.isRecording = FALSE]
          /\ task' = [task EXCEPT !["stopRec"] =
                        [pc |-> "stop.signal", sess |-> view.sessionRef,
                         text |-> view.transcriptionText, showTimer |-> FALSE]]
     ELSE /\ view' = [view EXCEPT !.acceptUpdates = FALSE, !.sessionRef = 0]
          /\ task' = [task EXCEPT !["stopRec"] =
                        [pc |-> "clean.signal", sess |-> 0,
                         text |-> view.transcriptionText, showTimer |-> FALSE]]
  /\ UNCHANGED restVars
  /\ step' = Step("StopRecording", view.sessionRef)
  /\ calls' = NoCalls
  /\ UNCHANGED <<statusFile, stopFile, micReadyFile, poller, invoked, now, prod, start>>

\* the command is closed: the unmount effect (CHANGELOG.md lines 69-74)
Unmount ==
  /\ view.mounted
  /\ view' = [view EXCEPT !.mounted = FALSE]
  /\ task' = [task EXCEPT !["unmount"].pc = "clean.signal"]
  /\ UNCHANGED restVars
  /\ step' = Step("Unmount", 0)
  /\ calls' = NoCalls
  /\ UNCHANGED <<statusFile, stopFile, micReadyFile, poller, invoked, now, prod, start>>

\* changeLanguage to another locale (CHANGELOG.md lines 117-125): the session in
\* sessionRef, if any, is stopped and the ref cleared, then cleanupTranscription
ChangeLanguage ==
  /\ view.mounted
  /\ view.isRecording
  /\ task["lang"].pc = "idle"
  /\ start[2] = "idle"
  /\ task' = [task EXCEPT !["lang"] =
                [pc |-> IF view.sessionRef # 0 THEN "stop.signal" ELSE "clean.signal",
                 sess |-> view.sessionRef, text |-> "", showTimer |-> FALSE]]
  /\ UNCHANGED restVars
  /\ step' = Step("ChangeLanguage", view.sessionRef)
  /\ calls' = NoCalls
  /\ UNCHANGED <<statusFile, stopFile, micReadyFile, poller, invoked, now, prod, start, view>>

\* changeLanguage lines 127-136: the state is reset and
\* startTranscriptionSession(newLocale) is called
LangRestart ==
  /\ task["lang"].pc = "done"
  /\ start[2] = "idle"
  /\ task' = [task EXCEPT !["lang"].pc = "restarted"]
  /\ view' = IF view.mounted
             THEN [view EXCEPT !.transcriptionText = "", !.isMicReady = FALSE,
                               !.acceptUpdates = TRUE]
             ELSE [view EXCEPT !.acceptUpdates = TRUE]
  /\ start' = [start EXCEPT ![2] = "starting"]
  /\ UNCHANGED restVars
  /\ step' = Step("LangRestart", 2)
  /\ calls' = NoCalls
  /\ UNCHANGED <<statusFile, stopFile, micReadyFile, poller, invoked, now, prod>>

\* ---------------------------------------------- the poller against any file
\* Every StreamEvent the interface of transcribe.ts lines 10-16 admits
EventShapes ==
  { Event("partial", ts, sid, tx, Absent) :
      ts \in 1..MaxTs, sid \in SessionIds \cup {Absent}, tx \in {"", "x"} }
  \cup
  { Event("completed", ts, sid, tx, Absent) :
      ts \in 1..MaxTs, sid \in SessionIds \cup {Absent}, tx \in {Absent, "", "x"} }
  \cup
  { Event("error", ts, sid, Absent, m) :
      ts \in 1..MaxTs, sid \in SessionIds \cup {Absent}, m \in {Absent, "m"} }
  \cup
  { Event(t, ts, sid, Absent, Absent) :
      t \in {"initializing", "recording_started"}, ts \in 1..MaxTs,
      sid \in SessionIds \cup {Absent} }

EnvWrite(e) ==
  /\ statusFile' = e
  /\ UNCHANGED restVars
  /\ step' = Step("env", 0)
  /\ calls' = NoCalls
  /\ UNCHANGED <<stopFile, micReadyFile, poller, invoked, sysVars>>

EnvGarbage ==
  /\ statusFile' = Garbage
  /\ UNCHANGED restVars
  /\ step' = Step("env", 0)
  /\ calls' = NoCalls
  /\ UNCHANGED <<stopFile, micReadyFile, poller, invoked, sysVars>>

EnvDelete ==
  /\ statusFile' = NoFile
  /\ UNCHANGED restVars
  /\ step' = Step("env", 0)
  /\ calls' = NoCalls
  /\ UNCHANGED <<stopFile, micReadyFile, poller, invoked, sysVars>>

EnvMicReady ==
  /\ ~micReadyFile
  /\ micReadyFile' = TRUE
  /\ UNCHANGED restVars
  /\ step' = Step("env", 0)
  /\ calls' = NoCalls
  /\ UNCHANGED <<statusFile, stopFile, poller, invoked, sysVars>>

InitP ==
  /\ statusFile = NoFile
  /\ stopFile = FALSE
  /\ micReadyFile = FALSE
  /\ poller = [s \in Sessions |->
                 IF s = 1 THEN [InitPoller EXCEPT !.pollInterval = "set"]
                 ELSE NoPoller]
  /\ calls = NoCalls
  /\ invoked = [s \in Sessions |-> {}]
  /\ step = Step("init", 0)
  /\ now = 0
  /\ prod = [s \in Sessions |-> InitProd]
  /\ start = [s \in Sessions |-> IF s = 1 THEN "started" ELSE "idle"]
  /\ task = [k \in TaskIds |-> IdleTask]
  /\ view = [InitView EXCEPT !.sessionRef = 1]
  /\ hook = MountedHook
  /\ cli = NoCli
  /\ vc = NoVc
  /\ lit = NoLit
  /\ fmt = NoFmt

NextP ==
  \/ \E e \in EventShapes : EnvWrite(e)
  \/ EnvGarbage
  \/ EnvDelete
  \/ EnvMicReady
  \/ IntervalTick(1)

SpecPoller == InitP /\ [][NextP]_vars

\* --------------------------------------------------------- the whole relay
\* the view is mounted and its mount effect has called startTranscriptionSession
InitRelay ==
  /\ statusFile = NoFile
  /\ stopFile = FALSE
  /\ micReadyFile = FALSE
  /\ poller = [s \in Sessions |-> NoPoller]
  /\ calls = NoCalls
  /\ invoked = [s \in Sessions |-> {}]
  /\ step = Step("init", 0)
  /\ now = 0
  /\ prod = [s \in Sessions |-> InitProd]
  /\ start = [s \in Sessions |-> IF s = 1 THEN "starting" ELSE "idle"]
  /\ task = [k \in TaskIds |-> IdleTask]
  /\ view = InitView
  /\ hook = MountedHook
  /\ cli = NoCli
  /\ vc = NoVc

Init ==
  /\ InitRelay
  /\ lit = NoLit
  /\ fmt = NoFmt

Next ==
  \/ \E s \in Sessions :
       \/ StartCleanup(s)
       \/ StartWatch(s)
       \/ IntervalTick(s)
       \/ ProdStart(s)
       \/ ProdPermissionDenied(s)
       \/ ProdStartFails(s)
       \/ ProdRecordingStarted(s)
       \/ ProdPartial(s)
       \/ ProdRecognitionError(s)
       \/ ProdStopAfterError(s)
       \/ ProdTimer(s)
       \/ ProdSeeStop(s)
       \/ ProdStopOnSignal(s)
       \/ ProdReturn(s)
       \/ ProdExit1(s)
  \/ \E k \in TaskIds :
       \/ TaskSignal(k)
       \/ TaskStopPolling(k)
       \/ TaskStopCleanup(k)
       \/ TaskCleanCleanup(k)
  \/ ShowActionsTimer
  \/ StopRecording
  \/ Unmount
  \/ EnvMicReady

Spec == Init /\ [][Next]_vars

\* -------------------------------------------- the relay with a second session
\* the sessions, their producers and the stops in flight, without failures
RelaySteps ==
  \/ \E s \in Sessions :
       \/ StartCleanup(s)
       \/ StartWatch(s)
       \/ IntervalTick(s)
       \/ ProdStart(s)
       \/ ProdRecordingStarted(s)
       \/ ProdPartial(s)
       \/ ProdTimer(s)
       \/ ProdSeeStop(s)
       \/ ProdStopOnSignal(s)
       \/ ProdReturn(s)
  \/ \E k \in TaskIds :
       \/ TaskSignal(k)
       \/ TaskStopPolling(k)
       \/ TaskStopCleanup(k)
       \/ TaskCleanCleanup(k)

\* changeLanguage while the first session runs
NextSessions ==
  \/ RelaySteps
  \/ ChangeLanguage
  \/ LangRestart

SpecSessions == Init /\ [][NextSessions]_vars

\* ----------------------------------- the view mounted under React StrictMode
\* After the first run of the effects React runs their cleanups: the view's
\* unmount effect calls cleanupTranscription without awaiting it (CHANGELOG.md
\* lines 69-74), and the two cleanups of useProductionSafeMount run
StrictCleanup ==
  /\ hook.phase = "mounted"
  /\ step = Step("init", 0)
  /\ hook' = [ResetCleanup(EffectCleanup(hook)) EXCEPT !.phase = "cleaned"]
  /\ task' = [task EXCEPT !["unmount"].pc = "clean.signal"]
  /\ step' = Step("StrictCleanup", 0)
  /\ calls' = NoCalls
  /\ UNCHANGED <<statusFile, stopFile, micReadyFile, poller, invoked, now, prod, start,
                 view, lit, fmt, cli, vc>>

\* ... and runs the effects again: mountFn is startTranscriptionSession
\* (CHANGELOG.md lines 77-79)
StrictRerun ==
  /\ hook.phase = "cleaned"
  /\ step = Step("StrictCleanup", 0)
  /\ hook' = [EffectSetup(hook) EXCEPT !.phase = "remounted"]
  /\ start' = IF EffectSetup(hook).runs > hook.runs
              THEN [start EXCEPT ![2] = "starting"] ELSE start
  /\ step' = Step("StrictRerun", 0)
  /\ calls' = NoCalls
  /\ UNCHANGED <<statusFile, stopFile, micReadyFile, poller, invoked, now, prod, task,
                 view, lit, fmt, cli, vc>>

\* the two sessions up to the first event of the recording, and the cleanup
NextStrict ==
  \/ \E s \in Sessions :
       \/ StartCleanup(s)
       \/ StartWatch(s)
       \/ IntervalTick(s)
       \/ ProdStart(s)
       \/ ProdRecordingStarted(s)
       \/ ProdSeeStop(s)
       \/ ProdStopOnSignal(s)
       \/ ProdReturn(s)
  \/ TaskSignal("unmount")
  \/ TaskCleanCleanup("unmount")
  \/ StrictCleanup
  \/ StrictRerun

SpecStrict == Init /\ [][NextStrict]_vars

\* ------------------------------ getLiteratureQuotesForCurrentTime on a file
InitQ ==
  /\ InitRelay
  /\ fmt = NoFmt
  /\ \E src \in SeqsUpTo(LineShapes, MaxLines), customTime \in {<<>>, TimeT, TimeU} :
       lit = [NoLit EXCEPT !.pc = "start", !.src = src, !.content = FileText(src),
                           !.customTime = customTime, !.clock = TimeT]

NextQ ==
  \/ LitRead
  \/ LitLine
  \/ LitReturn

SpecQuotes == InitQ /\ [][NextQ]_vars

\* ----------------------------------------------------- formatBytes on a size
InitB ==
  /\ InitRelay
  /\ lit = NoLit
  /\ \E b \in SizesTried : fmt = [NoFmt EXCEPT !.pc = "start", !.bytes = b]

NextB == FormatBytes

SpecBytes == InitB /\ [][NextB]_vars

\* ------------------------------------------ a run of the command-line tool
InitCli ==
  /\ InitRelay
  /\ lit = NoLit
  /\ fmt = NoFmt

StartCli ==
  /\ cli.pc = "none"
  /\ \E m \in BOOLEAN :
       CliStep([cli EXCEPT !.pc = "permissions", !.stream_mode = m])

NextCli ==
  \/ StartCli
  \/ CliDenied
  \/ CliStartFails
  \/ CliGranted
  \/ CliPartial
  \/ CliRecognitionError
  \/ CliTimer
  \/ CliStdinStop
  \/ CliStdinEOF
  \/ \E t \in Threads : StopGuard(t)
  \/ \E t \in Threads : StopSet(t)
  \/ \E t \in Threads : StopFinish(t)
  \/ \E t \in Threads : StopEmit(t)
  \/ CliLoopExit

SpecCli == InitCli /\ [][NextCli]_vars

\* ------------------------------------------------- a VoiceCommandView
InitVoice ==
  /\ InitRelay
  /\ lit = NoLit
  /\ fmt = NoFmt

\* what the code does without the user: promises settle, pollers call back
VoiceProgress ==
  \/ \E t \in SelectedTexts : SelectedTextResolves(t)
  \/ SelectedTextRejects
  \/ \E f \in AllFlows :
       \/ StartSession(f)
       \/ StopSignalled(f)
       \/ StopReturned(f)
       \/ CleanupDone(f)
       \/ BlankToastDone(f)
       \/ \E why \in {"selection", "instruction", "ai"} : RequestRejected(f, why)
       \/ RequestSucceeds(f)
       \/ RequestFails(f)

NextVoice ==
  \/ VoiceMount
  \/ VoiceProgress
  \/ \E s \in VSess :
       \/ OnRecordingStarted(s)
       \/ \E t \in PartialTexts : OnPartialResult(s, t)
       \/ OnSessionError(s)
       \/ OnSessionCompleted(s)
  \/ StopAndProcess
  \/ \E l \in Locales : ChangeLanguage_Voice(l)
  \/ HandleRegenerate
  \/ \E m \in Models : OnChangeModelAndRegenerate(m)

SpecVoice == InitVoice /\ [][NextVoice]_vars

\* every promise of the view settles: the toast, the files and AI.ask
SpecVoiceFair == SpecVoice /\ WF_vars(VoiceProgress)

\* ------------------------------------------------------------ properties
EventCalls(seq) == SelectSeq(seq, LAMBDA c : c.via = "event")
CallsOf(seq, cb) == SelectSeq(seq, LAMBDA c : c.cb = cb)

\* the step is a run of checkFile of session s
Polls(s) == step' = Step("checkFile", s)

\* the event in the status file carries no session id, or that of session s,
\* or session s has none yet
InSession(s) ==
  \/ statusFile.sessionId \in {Absent, ""}
  \/ poller[s].currentSessionId \in {NoSession, statusFile.sessionId}

SameEventState(s) ==
  /\ poller'[s].lastTimestamp = poller[s].lastTimestamp
  /\ poller'[s].lastEventType = poller[s].lastEventType
  /\ poller'[s].isRunning = poller[s].isRunning

\* C1: once a session id is captured, a poll that reads an event carrying a
\* different session id invokes no callback for it and leaves lastTimestamp,
\* lastEventType and isRunning unchanged (the only callback such a poll can
\* make is onRecordingStarted for the mic-ready file, which is not the event's).
C1_ForeignEventIgnored ==
  [][\A s \in Sessions :
       (/\ Polls(s)
        /\ IsEvent(statusFile)
        /\ poller[s].currentSessionId # NoSession
        /\ Truthy(statusFile.sessionId)
        /\ statusFile.sessionId # poller[s].currentSessionId)
       => /\ EventCalls(calls'[s]) = <<>>
          /\ SameEventState(s)
          /\ poller'[s].currentSessionId = poller[s].currentSessionId]_vars

C1_Witness ==
  /\ step = Step("checkFile", 1)
  /\ poller[1].currentSessionId = "A"
  /\ IsEvent(statusFile)
  /\ statusFile.sessionId = "B"
  /\ statusFile.timestamp > poller[1].lastTimestamp
  /\ statusFile.type = "completed"
  /\ poller[1].isRunning
  /\ calls[1] = <<>>

\* C2: a poll that reads an event whose timestamp and type equal the last
\* processed ones dispatches nothing and keeps lastTimestamp, lastEventType and
\* isRunning; and a poll directly after a poll (the file was not rewritten in
\* between) invokes no callback and changes no poller state, so an unchanged
\* file gets its callback at most once.
C2_DuplicateIgnored ==
  [][\A s \in Sessions :
       /\ (/\ Polls(s)
           /\ IsEvent(statusFile)
           /\ statusFile.timestamp = poller[s].lastTimestamp
           /\ statusFile.type = poller[s].lastEventType)
          => (EventCalls(calls'[s]) = <<>> /\ SameEventState(s))
       /\ (Polls(s) /\ step = Step("checkFile", s))
          => (calls'[s] = <<>> /\ poller'[s] = poller[s] /\ invoked'[s] = invoked[s])]_vars

C2_Witness ==
  /\ step = Step("checkFile", 1)
  /\ IsEvent(statusFile)
  /\ statusFile.type = "partial"
  /\ statusFile.text = "x"
  /\ statusFile.timestamp = poller[1].lastTimestamp
  /\ statusFile.type = poller[1].lastEventType
  /\ Call("onPartialResult", "x", "event") \in invoked[1]
  /\ calls[1] = <<>>

\* C3: lastTimestamp never decreases; a poll dispatches an event (updates
\* lastTimestamp/lastEventType or invokes an event callback) only if the event
\* is in session and its timestamp is greater than lastTimestamp, or equal with a
\* different type; an event with a smaller timestamp invokes no callback.
C3_TimestampOrdering ==
  [][\A s \in Sessions :
       /\ poller'[s].lastTimestamp >= poller[s].lastTimestamp
       /\ (Polls(s) /\ (EventCalls(calls'[s]) # <<>> \/ ~SameEventState(s)))
          => /\ IsEvent(statusFile)
             /\ InSession(s)
             /\ \/ statusFile.timestamp > poller[s].lastTimestamp
                \/ /\ statusFile.timestamp = poller[s].lastTimestamp
                   /\ statusFile.type # poller[s].lastEventType
             /\ poller'[s].lastTimestamp = statusFile.timestamp
       /\ (Polls(s) /\ IsEvent(statusFile)
             /\ statusFile.timestamp < poller[s].lastTimestamp)
          => (EventCalls(calls'[s]) = <<>> /\ SameEventState(s))]_vars

C3_Witness ==
  /\ step = Step("checkFile", 1)
  /\ IsEvent(statusFile)
  /\ statusFile.type = "completed"
  /\ statusFile.timestamp < poller[1].lastTimestamp
  /\ statusFile.sessionId = poller[1].currentSessionId
  /\ poller[1].isRunning
  /\ calls[1] = <<>>

\* the poll of session s reads a new in-session event
ReadsNewEvent(s) ==
  /\ Polls(s)
  /\ IsEvent(statusFile)
  /\ InSession(s)
  /\ \/ statusFile.timestamp > poller[s].lastTimestamp
     \/ /\ statusFile.timestamp = poller[s].lastTimestamp
        /\ statusFile.type # poller[s].lastEventType

\* C4: for a new in-session event the callbacks are keyed on its type:
\* partial with non-empty text -> onPartialResult(text), once; completed ->
\* exactly onCompleted(text, or "" when there is none); error -> exactly
\* onError(message, or "Unknown error" when there is none (missing or empty));
\* recording_started -> onRecordingStarted exactly when not yet invoked;
\* initializing -> no callback for the event.
C4_CallbacksKeyedOnType ==
  [][\A s \in Sessions : ReadsNewEvent(s) =>
       LET e == statusFile
           ev == EventCalls(calls'[s])
       IN
       /\ (e.type = "partial" /\ Truthy(e.text))
            => CallsOf(ev, "onPartialResult") = <<Call("onPartialResult", e.text, "event")>>
       /\ (e.type = "partial" /\ ~Truthy(e.text)) => CallsOf(ev, "onPartialResult") = <<>>
       /\ e.type = "completed"
            => ev = <<Call("onCompleted", IF Truthy(e.text) THEN e.text ELSE "", "event")>>
       /\ e.type = "error"
            => ev = <<Call("onError", IF Truthy(e.message) THEN e.message
                                      ELSE "Unknown error", "event")>>
       /\ e.type = "recording_started"
            => /\ Len(CallsOf(calls'[s], "onRecordingStarted"))
                    = (IF poller[s].recordingStartedCalled THEN 0 ELSE 1)
               /\ CallsOf(ev, "onRecordingStarted") = ev
       /\ e.type = "initializing" => ev = <<>>]_vars

C4_Witness ==
  /\ step = Step("checkFile", 1)
  /\ statusFile.type = "error"
  /\ statusFile.message = Absent
  /\ calls[1] = <<Call("onError", "Unknown error", "event")>>
  /\ Call("onPartialResult", "x", "event") \in invoked[1]
  /\ Call("onRecordingStarted", Absent, "event") \in invoked[1]

\* ---------------------------------------------------- stop and the producer
FromFile(seq) == SelectSeq(seq, LAMBDA c : c.via \in {"event", "micReady"})

\* stop() of session s has stopped polling / has resolved
PollingStopped(s) ==
  \E k \in TaskIds : task[k].sess = s
                     /\ task[k].pc \in {"stop.wait", "clean.signal", "clean.wait", "done"}
StopResolved(s) ==
  \E k \in TaskIds : task[k].sess = s /\ task[k].pc \in {"clean.signal", "clean.wait", "done"}

\* C5: session.stop() first creates the stop file (touching neither the poller
\* nor the status file), then stops polling (isRunning false, interval cleared,
\* files untouched), then waits, and only the step that ends the wait deletes the
\* status file and the stop file; once stop() has stopped polling no callback is
\* invoked from the status file or the mic-ready file.
C5_StopOrder ==
  /\ [](\A s \in Sessions : PollingStopped(s) =>
          (~poller[s].isRunning /\ poller[s].pollInterval = "cleared"))
  /\ [][\A k \in TaskIds : task[k].sess # 0 =>
          LET s == task[k].sess IN
          /\ task[k].pc = "stop.signal" =>
               \/ task'[k].pc = "stop.signal"
               \/ /\ task'[k].pc = "stop.polling"
                  /\ stopFile'
                  /\ poller' = poller
                  /\ statusFile' = statusFile
          /\ task[k].pc = "stop.polling" =>
               \/ task'[k].pc = "stop.polling"
               \/ /\ task'[k].pc = "stop.wait"
                  /\ ~poller'[s].isRunning
                  /\ poller'[s].pollInterval = "cleared"
                  /\ statusFile' = statusFile
                  /\ stopFile' = stopFile
          /\ task[k].pc = "stop.wait" =>
               \/ task'[k].pc = "stop.wait"
               \/ /\ StopResolved(s)'
                  /\ statusFile' = NoFile
                  /\ ~stopFile'
          /\ PollingStopped(s) => FromFile(calls'[s]) = <<>>]_vars

C5_Witness ==
  /\ step = Step("stop.cleanup", 1)
  /\ StopResolved(1)
  /\ prod[1].pc = "returning"
  /\ prod[1].observedStop
  /\ Call("onPartialResult", "x", "event") \in invoked[1]
  /\ statusFile = NoFile
  /\ ~stopFile

\* C6: the duration timer of a producer never fires after stop() of its
\* session has resolved: the stop signal has reached the producer by then.
C6_StopReachesProducer ==
  [][\A s \in Sessions : step' = Step("ProdTimer", s) => ~StopResolved(s)]_vars

\* C7: when a producer that failed has exited, onError has been invoked for
\* its session and the failure toast has been shown.
C7_FailureSurfaced ==
  \A s \in Sessions :
    (prod[s].pc = "exited" /\ prod[s].failure # Absent)
      => /\ \E c \in invoked[s] : c.cb = "onError"
         /\ view.toasts # {}

\* C8: when stop() or cleanupTranscription() has resolved, no stop or cleanup is
\* in flight and every producer has exited, neither IPC file exists.
C8_CleanupContract ==
  (/\ \E k \in TaskIds : task[k].pc = "done"
   /\ \A k \in TaskIds : task[k].pc \in {"idle", "done"}
   /\ start[1] = "started"
   /\ \A s \in Sessions : start[s] = "idle" \/ (start[s] = "started" /\ prod[s].pc = "exited"))
  => (statusFile = NoFile /\ ~stopFile)

\* C9: when stopRecording has run to its end, the recording has ended
\* (isRecording is false).
C9_ManualStopEndsRecording ==
  (task["stopRec"].pc = "done" /\ view.mounted) => ~view.isRecording

\* ------------------------------------------------------- literature clock
\* a line of the file, given by its fields, is blank / holds the entry
BlankFields(fields) ==
  Len(fields) = 1 /\ \A i \in 1..Len(fields[1]) : fields[1][i] \in Whitespace

Unspaced(str) == SelectSeq(str, LAMBDA c : c \notin Whitespace)

EntryOfFields(fields) ==
  [time |-> fields[1], timeString |-> fields[2], quote |-> fields[3],
   title |-> fields[4], author |-> fields[5], rating |-> Unspaced(fields[6])]

RequestedTime == IF lit.customTime # <<>> THEN lit.customTime ELSE lit.clock

KeptLines ==
  SelectSeq(lit.src, LAMBDA fields : /\ ~BlankFields(fields)
                                     /\ Len(fields) >= 6
                                     /\ fields[1] = RequestedTime)

\* C10: the result holds, in file order, exactly the lines that are not blank,
\* have at least 6 pipe-separated fields and whose first field is the
\* requested time; every other line is skipped.
C10_QuotesForTime ==
  lit.pc = "done" =>
    lit.entries = [i \in 1..Len(KeptLines) |-> EntryOfFields(KeptLines[i])]

C10_Witness ==
  /\ lit.pc = "done"
  /\ Len(lit.src) = 3
  /\ Len(lit.src[2]) = 5
  /\ lit.src[2][1] = RequestedTime
  /\ Len(lit.entries) = 2
  /\ lit.entries[1].quote = <<"p">>
  /\ lit.entries[2].quote = <<"q">>
  /\ lit.entries[2].rating = <<"r">>
  /\ lit.src[3][6] = <<"r", "\r">>

\* ------------------------------------------------------------ formatBytes
\* the largest i with 1024^i <= n, for a size n >= 1 given by its digits
LargestPower(b) ==
  CHOOSE i \in 0..(Len(b) - 1) : b[i + 1] # 0 /\ \A j \in (i + 2)..Len(b) : b[j] = 0

\* h hundredths is n / 1024^i rounded to two decimals (halves upwards)
IsRounded(h, b, i) ==
  LET t == 200 * b[i + 1] + Carry(b, i, 200)   \* floor(200 * n / 1024^i)
  IN 2 * h - 1 <= t /\ t <= 2 * h

\* C11: formatBytes returns "0 Bytes" for 0, and for a size n >= 1 the suffix
\* is the i-th of Bytes, KB, MB, GB, TB for the largest i with 1024^i <= n and
\* the number is n / 1024^i rounded to two decimals.
C11_FormatBytes ==
  fmt.pc = "done" =>
    IF IsZero(fmt.bytes) THEN fmt.out = [hundredths |-> 0, suffix |-> "Bytes"]
    ELSE LET i == LargestPower(fmt.bytes) IN
         /\ i + 1 <= Len(Sizes)
         /\ fmt.out.suffix = Sizes[i + 1]
         /\ IsRounded(fmt.out.hundredths, fmt.bytes, i)

\* ------------------------------------------------- after the final event
Terminal(s) == poller[s].lastEventType \in {"completed", "error"}

\* C12: once the poller has processed a completed or an error event,
\* isRunning is false and stays false, and no step invokes a callback from the
\* status file or the mic-ready file, whatever is written to them.
C12_NoCallbackAfterTerminal ==
  /\ [](\A s \in Sessions : Terminal(s) => ~poller[s].isRunning)
  /\ [][\A s \in Sessions : Terminal(s) =>
          /\ FromFile(calls'[s]) = <<>>
          /\ ~poller'[s].isRunning
          /\ poller'[s].lastTimestamp = poller[s].lastTimestamp
          /\ poller'[s].lastEventType = poller[s].lastEventType]_vars

C12_Witness ==
  /\ step = Step("clearInterval", 1)
  /\ poller[1].lastEventType = "completed"
  /\ ~poller[1].recordingStartedCalled
  /\ micReadyFile
  /\ statusFile.type = "partial"
  /\ statusFile.text = "x"
  /\ statusFile.timestamp > poller[1].lastTimestamp
  /\ statusFile.sessionId = poller[1].currentSessionId
  /\ calls[1] = <<>>

\* ------------------------------------------------------ onRecordingStarted
HasCall(S, cb) == \E c \in S : c.cb = cb

\* C13: in a session onRecordingStarted is invoked at most once, and the
\* first onPartialResult comes after it: a step that invokes onPartialResult
\* follows an earlier onRecordingStarted or invokes it first itself.
C13_RecordingStartedOnceAndFirst ==
  [][\A s \in Sessions :
       LET started == CallsOf(calls'[s], "onRecordingStarted") IN
       /\ Len(started) <= 1
       /\ Len(started) = 1 => ~HasCall(invoked[s], "onRecordingStarted")
       /\ \A i \in 1..Len(calls'[s]) :
            calls'[s][i].cb = "onPartialResult" =>
              \/ HasCall(invoked[s], "onRecordingStarted")
              \/ \E j \in 1..(i - 1) : calls'[s][j].cb = "onRecordingStarted"]_vars

\* a partial event is the first the poller sees of the recording
C13_Witness ==
  /\ step = Step("checkFile", 1)
  /\ calls[1] = <<Call("onRecordingStarted", Absent, "event"),
                  Call("onPartialResult", "x", "event")>>
  /\ poller[1].lastEventType = "partial"
  /\ poller[1].recordingStartedCalled
  /\ ~micReadyFile

\* ---------------------------------------------------- unparsable content
\* C14: a poll that finds content JSON.parse rejects invokes no callback for
\* it, leaves lastTimestamp, lastEventType and the captured session id as they
\* are, and polling goes on (isRunning true, interval set).
C14_ParseErrorIgnored ==
  [][\A s \in Sessions :
       (Polls(s) /\ statusFile = Garbage)
       => /\ EventCalls(calls'[s]) = <<>>
          /\ SameEventState(s)
          /\ poller'[s].currentSessionId = poller[s].currentSessionId
          /\ poller'[s].isRunning
          /\ poller'[s].pollInterval = "set"]_vars

\* a poll of garbage between two events of the session
C14_Witness ==
  /\ step = Step("checkFile", 1)
  /\ statusFile = Garbage
  /\ calls[1] = <<>>
  /\ poller[1].isRunning
  /\ poller[1].pollInterval = "set"
  /\ poller[1].lastEventType = "partial"
  /\ poller[1].currentSessionId = "A"
  /\ poller[1].lastTimestamp = 1

\* ------------------------------------------------------ two sessions
\* C15: a poller locks onto the session id of the producer its own
\* startTranscription call started, and an event of another producer invokes
\* no callback of the session.
C15_LocksOnOwnProducer ==
  /\ [](\A s \in Sessions : poller[s].currentSessionId \in {NoSession, SidOf(s)})
  /\ [][\A s \in Sessions :
          (Polls(s) /\ IsEvent(statusFile) /\ statusFile.sessionId # SidOf(s))
          => EventCalls(calls'[s]) = <<>>]_vars

\* the status file holds an event of session s that its poller has not read
Unread(s) ==
  /\ IsEvent(statusFile)
  /\ statusFile.sessionId = SidOf(s)
  /\ start[s] = "started"
  /\ poller[s].isRunning
  /\ poller[s].currentSessionId \in {NoSession, SidOf(s)}
  /\ \/ statusFile.timestamp > poller[s].lastTimestamp
     \/ statusFile.type # poller[s].lastEventType

\* C16: the cleanup issued before the second session was started (the only
\* stop or cleanup there is) never makes the second producer stop and never
\* deletes an event of the second session that its poller has not read.
C16_EarlierCleanupHarmless ==
  /\ [](~prod[2].observedStop)
  /\ [][step'.op \in {"stop.cleanup", "clean.cleanup"} => ~Unread(2)]_vars

\* ------------------------------------------------- useProductionSafeMount
\* C20: in one lifetime of the component mountFn is executed once, also when
\* the effect is run, cleaned up and run again, so the view starts one session.
C20_MountFnRunsOnce ==
  /\ hook.runs <= 1
  /\ start[2] = "idle"

\* ------------------------------------------ the producer ends on its own
\* producer s ended by its duration timer, wrote its "completed" event and
\* returned, and nothing on the consumer side asked for a stop or a cleanup
EndedOnItsOwn(s) ==
  /\ prod[s].pc = "exited"
  /\ prod[s].failure = Absent
  /\ ~prod[s].observedStop
  /\ prod[s].stopRequested
  /\ \A k \in TaskIds : task[k].pc = "idle"

\* C17: when the producer ended on its own and the polling of the session has
\* stopped, onCompleted has been invoked from the "completed" event with the
\* final text of the producer.
C17_OnCompletedAfterOwnEnd ==
  \A s \in Sessions :
    (EndedOnItsOwn(s) /\ poller[s].pollInterval = "cleared")
    => Call("onCompleted", prod[s].transcriptionResult, "event") \in invoked[s]

\* ------------------------------------------------------ error reporting
\* C18: a step invokes onError at most once, and never in a session in which
\* onError was invoked before.
C18_OnErrorAtMostOnce ==
  [][\A s \in Sessions :
       /\ Len(CallsOf(calls'[s], "onError")) <= 1
       /\ Len(CallsOf(calls'[s], "onError")) = 1 => ~HasCall(invoked[s], "onError")]_vars

\* ------------------------------------------- stop_transcribing, once a run
Completed(out) == Len(SelectSeq(out, LAMBDA e : e = "completed"))

\* C19: in a run of the producer the body of stop_transcribing is executed
\* at most once and at most one "completed" event is written, and a run in
\* stream mode that left its run loop after a stop has written exactly one.
C19_StopTakesEffectOnce ==
  /\ cli.effects <= 1
  /\ Completed(cli.out) <= 1
  /\ (cli.pc = "exited" /\ cli.stream_mode /\ cli.effects >= 1)
     => Completed(cli.out) = 1

\* ------------------------------------------------------ VoiceCommandView
StopFlows(s) == {f \in Flows : vc.flow[f].kind = "stop" /\ vc.flow[f].sess = s}
Running == {s \in VSess : vc.sess[s] = "running"}

\* C21: after stopAndProcess has started on a live session, an onPartialResult
\* leaves transcriptionText as it is until changeLanguage has started a new
\* session, and the instruction stopAndProcess passes to processVoiceCommand
\* is the text that was displayed when stop was pressed.
C21_TextFrozenAfterStop ==
  /\ [][(vc'.op.name = "onPartialResult" /\ vc.stopped)
        => vc'.transcriptionText = vc.transcriptionText]_vars
  /\ [](\A f \in Flows :
          (vc.flow[f].kind = "stop" /\ vc.flow[f].instruction # Absent)
          => vc.flow[f].instruction = vc.flow[f].pressed)

\* C22: a view that is processing becomes a result view, and a view that has
\* left recording does not return to it.
C22_ProcessingEndsInResult ==
  /\ (vc.viewState = "processing") ~> (vc.viewState = "result")
  /\ [][vc.viewState # "recording" => vc'.viewState # "recording"]_vars

\* Change Model & Regenerate with a blank instruction: the request was refused
\* up front and the view is a result view again
C22_Witness ==
  /\ vc.op.name = "request.rejected"
  /\ vc.flow[vc.op.f].kind = "model"
  /\ IsBlank(vc.transcriptionText)
  /\ vc.viewState = "result"

\* C23: the blank-transcription return of stopAndProcess and the failure of
\* its AI request set resultText to the selected text and show the result
\* view; a failed Regenerate leaves resultText as it was.
C23_FallsBackToSelectedText ==
  [][/\ (\/ vc'.op.name = "stopAndProcess.blank"
         \/ /\ vc'.op.name \in {"request.rejected", "request.failed"}
            /\ vc.flow[vc'.op.f].kind = "stop")
        => /\ vc'.resultText = vc'.selectedText
           /\ vc'.viewState = "result"
     /\ (/\ vc'.op.name \in {"request.rejected", "request.failed"}
         /\ vc.flow[vc'.op.f].kind = "regen")
        => vc'.resultText = vc.resultText]_vars

\* C24: for one session at most one stopAndProcess gets past its guard, calls
\* session.stop() and goes on to processVoiceCommand.
C24_StopFlowRunsOnce ==
  \A s \in VSess : Cardinality(StopFlows(s)) <= 1

\* C25: changeLanguage with the current locale changes nothing; at most one
\* session's poller is running at any time; and the session a changeLanguage
\* starts begins with empty transcriptionText, isMicReady false and updates
\* accepted.
C25_OneSessionAtATime ==
  /\ [](Cardinality(Running) <= 1)
  /\ [][vc'.op.name = "changeLanguage.return" => vc' = [vc EXCEPT !.op = vc'.op]]_vars
  /\ [][(vc'.op.name = "startTranscriptionSession" /\ vc.flow[vc'.op.f].kind = "lang")
        => /\ vc'.transcriptionText = ""
           /\ ~vc'.isMicReady
           /\ vc'.acceptUpdatesRef]_vars

====
